---- MODULE Spec2Model ----
(***************************************************************************)
(* A model of the multi-range file downloader: the thread-pool variant     *)
(* (src/sync/downloader.py), the asyncio variant (src/async/main.py) and   *)
(* the first, legacy variant (src/main.py).                                *)
(*                                                                         *)
(* Numbers.  __ranges works in Python floats (IEEE 754 binary64).  The     *)
(* model computes them as the code does: a float x >= 0 is kept as the     *)
(* pair <<hi, lo>> with x = (hi * 2^30 + lo) * 2^-55, and every division,  *)
(* multiplication and addition is rounded to 53 significant bits, ties to  *)
(* even.  The pair is exact for the values the bounds produce: quotients   *)
(* content_length / max_concurrency of at least 1/8, values below 32.      *)
(* Ranges is the same loop in exact rational arithmetic, each value kept   *)
(* as its NUMERATOR over the common denominator max_concurrency (the value *)
(* 2.5 = 10/4 is kept as 10 with max_concurrency = 4).                     *)
(*                                                                         *)
(* Bytes.  The origin's resource is the byte sequence 0, 1, ...,           *)
(* content_length - 1 (the byte at offset k has value k), so a file's      *)
(* content shows which origin offsets it holds and in which order.         *)
(*                                                                         *)
(* Files.  POSIX semantics: removing a file that a worker still has open   *)
(* unlinks the name; the worker's later writes do not bring it back.       *)
(***************************************************************************)
EXTENDS Integers, Sequences, FiniteSets, TLC

\* Bounds of the concurrent model (Spec).
MaxConcurrency == 2
MaxLength == 4
MaxChunk == 2
\* Bounds of the range-planning model (SpecRanges).
MaxPlanConcurrency == 4
MaxPlanLength == 12
\* The job of the many-worker model (SpecDrift): its worker count and length.
DriftConcurrency == 6
DriftLength == 8
\* The worker counts below zero of the model of non-positive worker counts
\* (SpecNonPositive): -MaxBelowZero..0.
MaxBelowZero == 2
\* The iterations followed of a range-planning loop that does not terminate.
MaxPlanSteps == 3

VARIABLES
    variant,          \* "thread" (sync/downloader.py), "asyncio" (async/main.py)
                      \* or "legacy" (main.py)
    path,             \* what the `path` argument names: "" (empty), "missing",
                      \* "file" or "dir"
    honours_range,    \* whether the origin honours the Range header of a GET
    probed,           \* whether the GET that reads Content-Length has been issued
    max_concurrency,  \* self.max_concurrency (before __init__: the argument)
    content_length,   \* self.content_length
    chunk,            \* self.chunk (before __init__: the argument)
    progress,         \* whether a progress callback was given (self.progress)
    ranges,           \* the list __ranges returned
    pc,               \* where __init__ ("new") or download() is
    idx,              \* the loop position of download() / __merge_files / __delete_temps
    error,            \* the exception __init__ or download() raised, "none" if none
    wpc,              \* wpc[i]: where worker i (__downloader for ranges[i]) is
    body,             \* body[i]: the part of worker i's response not yet iterated
    chunked,          \* chunked[i]: the argument of worker i's __run_progress call
    loaded,           \* loaded[i]: the value of self.current worker i read for +=
    arg,              \* arg[i]: the value of self.current worker i evaluated for the callback
    tempExists,       \* the indices i whose scratch file <i>_<file_name>.temp exists
    tempData,         \* tempData[i]: the content of scratch file i
    finalExists,      \* whether path/file_name exists
    finalData,        \* its content
    current,          \* self.current, the shared progress counter
    passed,           \* history: sum of the chunk lengths passed to __run_progress
    reported,         \* history: sum of the callback's third argument over its invocations
    lastArg           \* history: the first argument of the latest callback invocation

vars == <<variant, path, honours_range, probed, max_concurrency, content_length,
          chunk, progress, ranges, pc,
          idx, error, wpc, body, chunked, loaded, arg, tempExists, tempData,
          finalExists, finalData, current, passed, reported, lastArg>>

Min(a, b) == IF a <= b THEN a ELSE b

----------------------------------------------------------------------------
(* __ranges in exact rational arithmetic *)

\* content_length / self.max_concurrency, the amount added to `current` in each
\* iteration, as a numerator over max_concurrency.
StepCeil(L, n) == ((L + n - 1) \div n) * n
Step(L, n) == L

\* content_length / self.max_concurrency * c, as a numerator over max_concurrency.
EndOf(L, n, c) == L * c

\* The while loop of __ranges: cur is `current` (numerator over n), c the counter,
\* acc the list built so far.
RECURSIVE RangesLoop(_, _, _, _, _)
RangesLoop(L, n, cur, c, acc) ==
    IF cur < L * n
    THEN RangesLoop(L, n, cur + Step(L, n), c + 1,
                    Append(acc, [c |-> c, start |-> cur, end |-> EndOf(L, n, c)]))
    ELSE acc

Ranges(L, n) == RangesLoop(L, n, 0, 1, <<>>)

----------------------------------------------------------------------------
(* __ranges in binary64, as the interpreter computes it *)

\* A float is <<hi, lo>>: (hi * 2^LimbBits + lo) * 2^-FracBits, 0 <= lo < 2^LimbBits.
FracBits == 55
LimbBits == 30
HalfLimbBits == 15
\* The significand of a binary64 number has 53 bits.
Mantissa == 53

Limb == 2 ^ LimbBits
HalfLimb == 2 ^ HalfLimbBits
\* The hi limb of the float 1.0.
HiOne == 2 ^ (FracBits - LimbBits)

\* The number of bits of k >= 0.
BitLength(k) ==
    IF k = 0 THEN 0 ELSE CHOOSE b \in 1..(LimbBits + 1) : 2 ^ (b - 1) <= k /\ k < 2 ^ b

\* Round-to-nearest, ties-to-even, of the exact value <<hi, lo>> plus a remainder
\* below the last kept bit: below is 0 (none), 1 (less than half a unit), 2 (half)
\* or 3 (more than half).
Round(hi, lo, below) ==
    LET d == IF BitLength(hi) + LimbBits > Mantissa
             THEN BitLength(hi) + LimbBits - Mantissa ELSE 0
        unit == 2 ^ d
        low == lo % unit
        kept == lo - low
        odd == (kept \div unit) % 2 = 1
        up == IF d = 0
              THEN below = 3 \/ (below = 2 /\ odd)
              ELSE \/ 2 * low > unit
                   \/ 2 * low = unit /\ (below # 0 \/ odd)
        lo2 == IF up THEN kept + unit ELSE kept
    IN IF lo2 >= Limb THEN <<hi + 1, lo2 - Limb>> ELSE <<hi, lo2>>

AddExact(x, y) ==
    IF x[2] + y[2] >= Limb
    THEN <<x[1] + y[1] + 1, x[2] + y[2] - Limb>>
    ELSE <<x[1] + y[1], x[2] + y[2]>>

RECURSIVE TimesExact(_, _)
TimesExact(x, c) == IF c = 0 THEN <<0, 0>> ELSE AddExact(x, TimesExact(x, c - 1))

\* x + y, x * c (c an int) and L / n (L, n ints, n >= 1), each rounded once.
FAdd(x, y) == LET s == AddExact(x, y) IN Round(s[1], s[2], 0)

FMul(x, c) == LET p == TimesExact(x, c) IN Round(p[1], p[2], 0)

FDiv(L, n) ==
    LET top == L * HiOne
        hi == top \div n
        r1 == top % n
        mid == (r1 * HalfLimb) \div n
        r2 == (r1 * HalfLimb) % n
        low == (r2 * HalfLimb) \div n
        r3 == (r2 * HalfLimb) % n
        below == IF r3 = 0 THEN 0
                 ELSE IF 2 * r3 < n THEN 1
                 ELSE IF 2 * r3 = n THEN 2 ELSE 3
    IN Round(hi, mid * HalfLimb + low, below)

\* x < k for an int k; int(x); int(x - 1), which is 0 for x < 1 (x - 1 is exact
\* for x >= 1, and lies in (-1, 0) otherwise).
FLessOrEqual(x, k) == x[1] < k * HiOne \/ (x[1] = k * HiOne /\ x[2] = 0)
FLess(x, k) == x[1] < k * HiOne

FInt(x) == x[1] \div HiOne

FIntMinusOne(x) == IF FInt(x) >= 1 THEN FInt(x) - 1 ELSE 0

FZero == <<0, 0>>

\* The while loop of __ranges: cur is `current`, c the counter, acc the list.
RECURSIVE FloatLoop(_, _, _, _, _)
FloatLoop(L, n, cur, c, acc) ==
    IF FLess(cur, L)
    THEN FloatLoop(L, n, FAdd(cur, FDiv(L, n)), c + 1,
                   Append(acc, [c |-> c, start |-> cur, end |-> FMul(FDiv(L, n), c)]))
    ELSE acc

FRanges(L, n) == FloatLoop(L, n, FZero, 1, <<>>)

----------------------------------------------------------------------------
(* The ranged GET *)

\* The Range header of a worker: bytes={int(range[0])}-{int(range[1] - 1)}.
RangeHeader(r) ==
    [first |-> FInt(r.start), last |-> FIntMinusOne(r.end)]

\* The origin's resource.
Origin(L) == [k \in 1..L |-> k - 1]

\* Whether the origin answers the ranged GET with 206 Partial Content (and a
\* Content-Range header): it honours ranges and the byte range is valid.  Otherwise
\* the Range header is ignored and the answer is 200 with the whole resource.
Partial(h) == honours_range /\ h.first <= h.last

\* The body of the answer: the bytes first..last, or the whole resource.
Response(h, L) ==
    IF Partial(h)
    THEN SubSeq(Origin(L), h.first + 1, Min(h.last, L - 1) + 1)
    ELSE Origin(L)

\* __cl_counter: the scratch-file indices 1..max_concurrency.
cl_counter == 1..max_concurrency

----------------------------------------------------------------------------
(* __init__ *)

\* The class attributes MAX_CONCURRENCY and CHUNK.
MAX_CONCURRENCY == 4
CHUNK == 1024

\* Python's `a or b` for an int argument a: b when a is 0 (falsy), else a.
Or(a, b) == IF a = 0 THEN b ELSE a

\* The three checks of the constructor: `not path`, `not path.exists()`,
\* `not path.is_dir()`; the path is accepted when none of them raises.
PathAcceptedUnchecked(p) == p # ""
PathExists(p) == p \in {"file", "dir"}
PathIsDir(p) == p = "dir"
PathAccepted(p) == p # "" /\ PathExists(p) /\ PathIsDir(p)

NoWorkers == <<>>

\* Nothing of download() has run, and the destination directory holds neither the
\* final file nor a scratch file.
Fresh ==
    /\ ranges = <<>>
    /\ idx = 0
    /\ error = "none"
    /\ wpc = NoWorkers
    /\ body = NoWorkers
    /\ chunked = NoWorkers
    /\ loaded = NoWorkers
    /\ arg = NoWorkers
    /\ tempExists = {}
    /\ tempData = [i \in 1..max_concurrency |-> <<>>]
    /\ finalExists = FALSE
    /\ finalData = <<>>
    /\ current = 0
    /\ passed = 0
    /\ reported = 0
    /\ lastArg = 0

\* The constructor: the path checks, then the fields; the thread variant also
\* probes the content length.  Before it runs, max_concurrency and chunk hold the
\* arguments; the legacy variant takes no chunk argument and reads 1024 bytes at a
\* time.
Construct ==
    /\ pc = "new"
    /\ IF PathAccepted(path)
       THEN /\ max_concurrency' = IF variant = "legacy" THEN max_concurrency
                                   ELSE Or(max_concurrency, MAX_CONCURRENCY)
            /\ chunk' = IF variant = "legacy" THEN CHUNK ELSE Or(chunk, CHUNK)
            /\ probed' = (variant = "thread")
            /\ tempData' = [i \in 1..max_concurrency' |-> <<>>]
            /\ pc' = "start"
            /\ UNCHANGED error
       ELSE /\ error' = "ValueError"
            /\ pc' = "raised"
            /\ UNCHANGED <<max_concurrency, chunk, probed, tempData>>
    /\ UNCHANGED <<variant, path, honours_range, content_length, progress, ranges,
                   idx, wpc, body, chunked, loaded, arg, tempExists, finalExists,
                   finalData, current, passed, reported, lastArg>>

----------------------------------------------------------------------------
(* The constructor on its own, for every kind of path and every variant *)

\* The max_concurrency and chunk arguments; 0 stands for the default None as well
\* (both are falsy).
InitNew ==
    /\ variant \in {"thread", "asyncio", "legacy"}
    /\ honours_range = TRUE
    /\ path \in {"", "missing", "file", "dir"}
    /\ max_concurrency \in 0..MaxConcurrency
    /\ content_length \in 0..MaxLength
    /\ chunk \in IF variant = "legacy" THEN {CHUNK} ELSE 0..MaxChunk
    /\ progress \in IF variant = "legacy" THEN {FALSE} ELSE BOOLEAN
    /\ probed = FALSE
    /\ pc = "new"
    /\ Fresh

NextNew == Construct

SpecNew == InitNew /\ [][NextNew]_vars

----------------------------------------------------------------------------
(* The state after construction *)

\* The fields a successful constructor leaves.
Constructed ==
    /\ path = "dir"
    /\ probed = (variant = "thread")
    /\ pc = "start"

\* The chunk sizes and the progress arguments a variant can be given: the legacy
\* variant has neither parameter.
Chunks(v) == IF v = "legacy" THEN {CHUNK} ELSE 1..MaxChunk
Callbacks(v) == IF v = "legacy" THEN {FALSE} ELSE BOOLEAN

Init ==
    /\ variant \in {"thread", "asyncio"}
    /\ honours_range = TRUE
    /\ max_concurrency \in 1..MaxConcurrency
    /\ content_length \in 0..MaxLength
    /\ chunk \in 1..MaxChunk
    /\ progress \in BOOLEAN
    /\ Constructed
    /\ Fresh

Workers == 1..Len(wpc)
Stopped(i) == wpc[i] \in {"done", "failed"}
AllStopped == \A i \in Workers : Stopped(i)
AllDone == \A i \in Workers : wpc[i] = "done"
AnyFailed == \E i \in Workers : wpc[i] = "failed"

\* The variants that run the workers on a ThreadPoolExecutor.
Threaded == variant \in {"thread", "legacy"}

\* Where an exception raised in download() goes: out of the `with
\* ThreadPoolExecutor`, whose exit joins the pool, or out of the `async with`
\* session, where nothing is awaited.
Leaving == IF Threaded THEN "shutdown" ELSE "raised"

\* Whether worker i has been taken up: a pool of max_concurrency threads runs the
\* submitted tasks in order, a further task once a thread is free; the coroutines
\* of asyncio.gather all run at once.
Admitted(i) ==
    \/ variant = "asyncio"
    \/ i <= max_concurrency + Cardinality({j \in 1..(i - 1) : Stopped(j)})

----------------------------------------------------------------------------
(* __downloader: worker i fetches ranges[i] into scratch file ranges[i].c *)

FileOf(i) == ranges[i].c

\* Asyncio variant: download() has left `async with aiohttp.ClientSession`, which
\* closes the session; a GET still pending on it can only fail.
SessionClosed == variant = "asyncio" /\ pc \in {"returned", "raised"}

\* Legacy variant: the worker prints r.headers['content-range'], a KeyError when
\* the answer is not a 206; the other variants never look at the status.
HeaderMissing(i) == variant = "legacy" /\ ~Partial(RangeHeader(ranges[i]))

\* The response to the ranged GET arrives and the scratch file is opened 'wb'.
GetResponse(i) ==
    /\ wpc[i] = "get"
    /\ Admitted(i)
    /\ ~SessionClosed
    /\ IF HeaderMissing(i)
       THEN /\ wpc' = [wpc EXCEPT ![i] = "failed"]
            /\ UNCHANGED <<body, tempExists, tempData>>
       ELSE /\ wpc' = [wpc EXCEPT ![i] = "iter"]
            /\ body' = [body EXCEPT ![i] =
                          Response(RangeHeader(ranges[i]), content_length)]
            /\ tempExists' = tempExists \cup {FileOf(i)}
            /\ tempData' = (FileOf(i) :> <<>>) @@ tempData
    /\ UNCHANGED <<variant, path, honours_range, probed, max_concurrency,
                   content_length, chunk, progress, ranges,
                   pc, idx, error, chunked, loaded, arg, finalExists, finalData,
                   current, passed, reported, lastArg>>

\* The GET or the iteration over the response raises (a transport failure, or the
\* task is cancelled); the with block closes the scratch file and leaves it.
WorkerFail(i) ==
    /\ wpc[i] \in {"get", "iter"}
    /\ Admitted(i)
    /\ wpc' = [wpc EXCEPT ![i] = "failed"]
    /\ UNCHANGED <<variant, path, honours_range, probed, max_concurrency,
                   content_length, chunk, progress, ranges,
                   pc, idx, error, body, chunked, loaded, arg, tempExists, tempData,
                   finalExists, finalData, current, passed, reported, lastArg>>

\* Where a worker goes after f.write(chunk): into __run_progress when a callback
\* was given, else to the next chunk.
AfterWrite ==
    IF ~progress \/ variant = "legacy" THEN "iter"
    ELSE IF variant = "thread" THEN "load" ELSE "progress"

\* One iteration of the chunk loop: the next chunk (at most self.chunk bytes) is
\* written to the scratch file.
NextChunk(i) ==
    /\ wpc[i] = "iter"
    /\ body[i] # <<>>
    /\ LET k == Min(chunk, Len(body[i])) IN
        /\ tempData' = IF FileOf(i) \in tempExists
                       THEN [tempData EXCEPT ![FileOf(i)] = @ \o SubSeq(body[i], 1, k)]
                       ELSE tempData
        /\ body' = [body EXCEPT ![i] = SubSeq(@, k + 1, Len(@))]
        /\ chunked' = [chunked EXCEPT ![i] = IF progress THEN k ELSE 0]
    /\ wpc' = [wpc EXCEPT ![i] = AfterWrite]
    /\ UNCHANGED <<variant, path, honours_range, probed, max_concurrency,
                   content_length, chunk, progress, ranges,
                   pc, idx, error, loaded, arg, tempExists, finalExists, finalData,
                   current, passed, reported, lastArg>>

\* The response is exhausted: the scratch file is closed and the worker returns.
Finish(i) ==
    /\ wpc[i] = "iter"
    /\ body[i] = <<>>
    /\ wpc' = [wpc EXCEPT ![i] = "done"]
    /\ UNCHANGED <<variant, path, honours_range, probed, max_concurrency,
                   content_length, chunk, progress, ranges,
                   pc, idx, error, body, chunked, loaded, arg, tempExists, tempData,
                   finalExists, finalData, current, passed, reported, lastArg>>

----------------------------------------------------------------------------
(* __run_progress, thread variant: self.current += chunked is a read, an add *)
(* and a store, and the callback's arguments are evaluated before the call.  *)

\* __run_progress is entered with chunked[i]; self.current is read.
Load(i) ==
    /\ wpc[i] = "load"
    /\ loaded' = [loaded EXCEPT ![i] = current]
    /\ passed' = passed + chunked[i]
    /\ wpc' = [wpc EXCEPT ![i] = "store"]
    /\ UNCHANGED <<variant, path, honours_range, probed, max_concurrency,
                   content_length, chunk, progress, ranges,
                   pc, idx, error, body, chunked, arg, tempExists, tempData,
                   finalExists, finalData, current, reported, lastArg>>

\* The sum is stored into self.current.
Store(i) ==
    /\ wpc[i] = "store"
    /\ current' = loaded[i] + chunked[i]
    /\ loaded' = [loaded EXCEPT ![i] = 0]
    /\ wpc' = [wpc EXCEPT ![i] = "arg"]
    /\ UNCHANGED <<variant, path, honours_range, probed, max_concurrency,
                   content_length, chunk, progress, ranges,
                   pc, idx, error, body, chunked, arg, tempExists, tempData,
                   finalExists, finalData, passed, reported, lastArg>>

\* self.current is evaluated as the callback's first argument.
EvalArg(i) ==
    /\ wpc[i] = "arg"
    /\ arg' = [arg EXCEPT ![i] = current]
    /\ wpc' = [wpc EXCEPT ![i] = "call"]
    /\ UNCHANGED <<variant, path, honours_range, probed, max_concurrency,
                   content_length, chunk, progress, ranges,
                   pc, idx, error, body, chunked, loaded, tempExists, tempData,
                   finalExists, finalData, current, passed, reported, lastArg>>

\* The callback is invoked: progress(arg, content_length, chunked, ...).
Call(i) ==
    /\ wpc[i] = "call"
    /\ lastArg' = arg[i]
    /\ reported' = reported + chunked[i]
    /\ arg' = [arg EXCEPT ![i] = 0]
    /\ chunked' = [chunked EXCEPT ![i] = 0]
    /\ wpc' = [wpc EXCEPT ![i] = "iter"]
    /\ UNCHANGED <<variant, path, honours_range, probed, max_concurrency,
                   content_length, chunk, progress, ranges,
                   pc, idx, error, body, loaded, tempExists, tempData,
                   finalExists, finalData, current, passed>>

(* __run_progress, asyncio variant: no await between the entry and the call of *)
(* the callback, so the whole of it is one step of the event loop.             *)
RunProgress(i) ==
    /\ wpc[i] = "progress"
    /\ current' = current + chunked[i]
    /\ passed' = passed + chunked[i]
    /\ lastArg' = current + chunked[i]
    /\ reported' = reported + chunked[i]
    /\ chunked' = [chunked EXCEPT ![i] = 0]
    /\ wpc' = [wpc EXCEPT ![i] = "iter"]
    /\ UNCHANGED <<variant, path, honours_range, probed, max_concurrency,
                   content_length, chunk, progress, ranges,
                   pc, idx, error, body, loaded, arg, tempExists, tempData,
                   finalExists, finalData>>

----------------------------------------------------------------------------
(* download *)

\* Where download() goes once a join has succeeded for k of the tasks (thread
\* variant: the for loop over tasks is exhausted after the last one).
LoopExhaustedEarly(k) == k >= 1
LoopExhausted(k) == k >= Len(ranges)

\* ThreadPoolExecutor(max_workers) raises ValueError for max_workers <= 0, before
\* anything of the with block runs.
PoolRefused == Threaded /\ max_concurrency <= 0

\* __ranges never leaves its loop: the step content_length / max_concurrency is
\* negative, so `current` starts at 0 and only decreases, and stays below
\* content_length.
Diverges == max_concurrency < 0 /\ content_length >= 1

\* The ranges are planned and one worker per range is launched (pool.submit for
\* each range; the coroutines handed to asyncio.gather).  The asyncio and legacy
\* variants probe the content length first.
Start ==
    /\ pc = "start"
    /\ IF PoolRefused
       THEN /\ error' = "ValueError"
            /\ pc' = "raised"
            /\ UNCHANGED <<probed, ranges, wpc, body, chunked, loaded, arg, idx>>
       ELSE IF Diverges
       THEN /\ probed' = TRUE
            /\ pc' = "ranges"
            /\ idx' = 1
            /\ UNCHANGED <<error, ranges, wpc, body, chunked, loaded, arg>>
       ELSE LET planned == FRanges(content_length, max_concurrency) IN
            /\ probed' = TRUE
            /\ ranges' = planned
            /\ wpc' = [i \in 1..Len(planned) |-> "get"]
            /\ body' = [i \in 1..Len(planned) |-> <<>>]
            /\ chunked' = [i \in 1..Len(planned) |-> 0]
            /\ loaded' = [i \in 1..Len(planned) |-> 0]
            /\ arg' = [i \in 1..Len(planned) |-> 0]
            /\ pc' = IF Len(planned) = 0 THEN "merge_open" ELSE "join"
            /\ idx' = 1
            /\ UNCHANGED error
    /\ UNCHANGED <<variant, path, honours_range, max_concurrency, content_length,
                   chunk, progress, tempExists, tempData, finalExists, finalData,
                   current, passed, reported, lastArg>>

\* One iteration of the while loop of a __ranges that diverges: a range is
\* appended to the local list and c is incremented (idx counts the iterations,
\* up to MaxPlanSteps); nothing is ever returned.
RangesIteration ==
    /\ pc = "ranges"
    /\ idx < MaxPlanSteps
    /\ idx' = idx + 1
    /\ UNCHANGED <<variant, path, honours_range, probed, max_concurrency,
                   content_length, chunk, progress, ranges, pc, error, wpc, body,
                   chunked, loaded, arg, tempExists, tempData, finalExists,
                   finalData, current, passed, reported, lastArg>>

\* Thread and legacy variants: task.result() of tasks[idx] returns or raises.
TaskResult ==
    /\ Threaded
    /\ pc = "join"
    /\ idx \in Workers
    /\ Stopped(idx)
    /\ IF wpc[idx] = "failed"
       THEN pc' = "sleep" /\ idx' = idx
       ELSE IF LoopExhausted(idx)
            THEN pc' = "merge_open" /\ idx' = 1
            ELSE pc' = "join" /\ idx' = idx + 1
    /\ UNCHANGED <<variant, path, honours_range, probed, max_concurrency,
                   content_length, chunk, progress, ranges,
                   error, wpc, body, chunked, loaded, arg, tempExists, tempData,
                   finalExists, finalData, current, passed, reported, lastArg>>

\* Asyncio variant: await asyncio.gather(*tasks) raises as soon as one task has
\* raised (the other tasks are left running), and returns when all have returned.
Gather ==
    /\ variant = "asyncio"
    /\ pc = "join"
    /\ AnyFailed \/ AllDone
    /\ pc' = IF AnyFailed THEN "sleep" ELSE "merge_open"
    /\ idx' = 1
    /\ UNCHANGED <<variant, path, honours_range, probed, max_concurrency,
                   content_length, chunk, progress, ranges,
                   error, wpc, body, chunked, loaded, arg, tempExists, tempData,
                   finalExists, finalData, current, passed, reported, lastArg>>

\* Whether the name the except clause sleeps through is bound.  sleep and
\* asyncio.sleep are imported at the top of their modules.  The legacy variant
\* calls time.sleep, and `time` is imported only under `if __name__ == "__main__"`:
\* bound when main.py runs as a script, a NameError when it is imported.
SleepBound == IF variant = "legacy" THEN BOOLEAN ELSE {TRUE}

\* The except clause: sleep(1), then __delete_temps is entered; a NameError
\* leaves the except clause and the with block at once.
Sleep ==
    /\ pc = "sleep"
    /\ \E bound \in SleepBound :
          IF bound
          THEN /\ pc' = "except_delete"
               /\ idx' = 1
               /\ UNCHANGED error
          ELSE /\ error' = "NameError"
               /\ pc' = Leaving
               /\ UNCHANGED idx
    /\ UNCHANGED <<variant, path, honours_range, probed, max_concurrency,
                   content_length, chunk, progress, ranges, wpc, body, chunked,
                   loaded, arg, tempExists, tempData, finalExists, finalData,
                   current, passed, reported, lastArg>>

\* exists(cl) for scratch file i.
ExistsAlways(i) == TRUE
Exists(i) == i \in tempExists

\* One iteration of __delete_temps: scratch file idx is removed if exists() says it
\* is there; remove() raises FileNotFoundError for a file that is not.  The pcs
\* "cleanup" and "cleanup_again" are __delete_temps called on its own.
DeleteTemp ==
    /\ pc \in {"except_delete", "delete", "cleanup", "cleanup_again"}
    /\ idx \in cl_counter
    /\ IF Exists(idx) /\ idx \notin tempExists
       THEN /\ error' = "FileNotFoundError"
            /\ pc' = IF pc \in {"cleanup", "cleanup_again"} THEN "raised" ELSE Leaving
            /\ UNCHANGED <<tempExists, tempData, idx>>
       ELSE /\ tempExists' = IF Exists(idx) THEN tempExists \ {idx} ELSE tempExists
            /\ tempData' = IF Exists(idx) THEN [tempData EXCEPT ![idx] = <<>>]
                            ELSE tempData
            /\ idx' = idx + 1
            /\ UNCHANGED <<pc, error>>
    /\ UNCHANGED <<variant, path, honours_range, probed, max_concurrency,
                   content_length, chunk, progress, ranges, wpc, body, chunked,
                   loaded, arg, finalExists, finalData, current, passed, reported,
                   lastArg>>

\* __delete_temps, called on its own, returns, and is called a second time.
DeleteTempsAgain ==
    /\ pc = "cleanup"
    /\ idx \notin cl_counter
    /\ pc' = "cleanup_again"
    /\ idx' = 1
    /\ UNCHANGED <<variant, path, honours_range, probed, max_concurrency,
                   content_length, chunk, progress, ranges, error, wpc, body,
                   chunked, loaded, arg, tempExists, tempData, finalExists,
                   finalData, current, passed, reported, lastArg>>

\* The second call returns.
DeleteTempsReturn ==
    /\ pc = "cleanup_again"
    /\ idx \notin cl_counter
    /\ pc' = "cleaned"
    /\ UNCHANGED <<variant, path, honours_range, probed, max_concurrency,
                   content_length, chunk, progress, ranges, idx, error, wpc, body,
                   chunked, loaded, arg, tempExists, tempData, finalExists,
                   finalData, current, passed, reported, lastArg>>

\* raise ConnectionRefusedError after the cleanup of the except clause.
Raise ==
    /\ pc = "except_delete"
    /\ idx \notin cl_counter
    /\ error' = "ConnectionRefusedError"
    /\ pc' = Leaving
    /\ UNCHANGED <<variant, path, honours_range, probed, max_concurrency,
                   content_length, chunk, progress, ranges,
                   idx, wpc, body, chunked, loaded, arg, tempExists, tempData,
                   finalExists, finalData, current, passed, reported, lastArg>>

\* ThreadPoolExecutor.__exit__: shutdown(wait=True) returns once every worker
\* thread has finished; the exception then leaves download().
PoolExit ==
    /\ pc = "shutdown"
    /\ AllStopped
    /\ pc' = "raised"
    /\ UNCHANGED <<variant, path, honours_range, probed, max_concurrency,
                   content_length, chunk, progress, ranges,
                   idx, error, wpc, body, chunked, loaded, arg, tempExists, tempData,
                   finalExists, finalData, current, passed, reported, lastArg>>

\* __merge_files opens path/file_name 'wb'.
MergeOpen ==
    /\ pc = "merge_open"
    /\ finalExists' = TRUE
    /\ finalData' = <<>>
    /\ pc' = "merge"
    /\ idx' = 1
    /\ UNCHANGED <<variant, path, honours_range, probed, max_concurrency,
                   content_length, chunk, progress, ranges,
                   error, wpc, body, chunked, loaded, arg, tempExists, tempData,
                   current, passed, reported, lastArg>>

\* One iteration of __merge_files: scratch file idx is opened 'rb' and copied to
\* the final file; open raises FileNotFoundError when it does not exist.
MergeFile ==
    /\ pc = "merge"
    /\ idx \in cl_counter
    /\ IF idx \in tempExists
       THEN /\ finalData' = finalData \o tempData[idx]
            /\ idx' = idx + 1
            /\ UNCHANGED <<pc, error>>
       ELSE /\ error' = "FileNotFoundError"
            /\ pc' = Leaving
            /\ UNCHANGED <<finalData, idx>>
    /\ UNCHANGED <<variant, path, honours_range, probed, max_concurrency,
                   content_length, chunk, progress, ranges,
                   wpc, body, chunked, loaded, arg, tempExists, tempData, finalExists,
                   current, passed, reported, lastArg>>

\* __merge_files fails for a reason of the environment: the destination cannot be
\* opened or written, or a scratch file cannot be read (OSError).  Nothing in
\* download() catches it.
MergeFail ==
    /\ pc \in {"merge_open", "merge"}
    /\ error' = "OSError"
    /\ pc' = Leaving
    /\ UNCHANGED <<variant, path, honours_range, probed, max_concurrency,
                   content_length, chunk, progress, ranges, idx, wpc, body, chunked,
                   loaded, arg, tempExists, tempData, finalExists, finalData,
                   current, passed, reported, lastArg>>

\* __merge_files returns and __delete_temps is entered.
MergeDone ==
    /\ pc = "merge"
    /\ idx \notin cl_counter
    /\ pc' = "delete"
    /\ idx' = 1
    /\ UNCHANGED <<variant, path, honours_range, probed, max_concurrency,
                   content_length, chunk, progress, ranges,
                   error, wpc, body, chunked, loaded, arg, tempExists, tempData,
                   finalExists, finalData, current, passed, reported, lastArg>>

\* download() returns after the cleanup that follows the merge.
Return ==
    /\ pc = "delete"
    /\ idx \notin cl_counter
    /\ pc' = "returned"
    /\ UNCHANGED <<variant, path, honours_range, probed, max_concurrency,
                   content_length, chunk, progress, ranges,
                   idx, error, wpc, body, chunked, loaded, arg, tempExists, tempData,
                   finalExists, finalData, current, passed, reported, lastArg>>

Next ==
    \/ Start
    \/ TaskResult
    \/ Gather
    \/ Sleep
    \/ DeleteTemp
    \/ Raise
    \/ PoolExit
    \/ MergeOpen
    \/ MergeFile
    \/ MergeFail
    \/ MergeDone
    \/ Return
    \/ \E i \in Workers : GetResponse(i)
    \/ \E i \in Workers : WorkerFail(i)
    \/ \E i \in Workers : NextChunk(i)
    \/ \E i \in Workers : Finish(i)
    \/ \E i \in Workers : Load(i)
    \/ \E i \in Workers : Store(i)
    \/ \E i \in Workers : EvalArg(i)
    \/ \E i \in Workers : Call(i)
    \/ \E i \in Workers : RunProgress(i)

Spec == Init /\ [][Next]_vars

----------------------------------------------------------------------------
(* An origin that ignores the Range header: the same download, all variants *)

InitNoRange ==
    /\ variant \in {"thread", "asyncio", "legacy"}
    /\ honours_range = FALSE
    /\ max_concurrency \in 1..MaxConcurrency
    /\ content_length \in 0..MaxLength
    /\ chunk \in Chunks(variant)
    /\ progress \in Callbacks(variant)
    /\ Constructed
    /\ Fresh

SpecNoRange == InitNoRange /\ [][Next]_vars

----------------------------------------------------------------------------
(* The download of a resource of at least one byte in all three variants, *)
(* with a merge the environment does not fail, run to its end             *)

InitSteady ==
    /\ variant \in {"thread", "asyncio", "legacy"}
    /\ honours_range = TRUE
    /\ max_concurrency \in 1..MaxConcurrency
    /\ content_length \in 1..MaxLength
    /\ chunk \in Chunks(variant)
    /\ progress \in Callbacks(variant)
    /\ Constructed
    /\ Fresh

\* What download() and its workers do once the workers are launched.
Launched ==
    \/ TaskResult
    \/ Gather
    \/ Sleep
    \/ DeleteTemp
    \/ Raise
    \/ PoolExit
    \/ MergeOpen
    \/ MergeFile
    \/ MergeDone
    \/ Return
    \/ \E i \in Workers : GetResponse(i)
    \/ \E i \in Workers : WorkerFail(i)
    \/ \E i \in Workers : NextChunk(i)
    \/ \E i \in Workers : Finish(i)
    \/ \E i \in Workers : Load(i)
    \/ \E i \in Workers : Store(i)
    \/ \E i \in Workers : EvalArg(i)
    \/ \E i \in Workers : Call(i)
    \/ \E i \in Workers : RunProgress(i)

NextSteady ==
    \/ Start
    \/ Launched

\* The interpreter keeps running what can run, and every GET is answered or raises
\* in the end: once launched, the job does not stop while a step of it is possible.
SpecSteady == InitSteady /\ [][NextSteady]_vars /\ WF_vars(Launched)

----------------------------------------------------------------------------
(* Range planning over a wider set of inputs: the same Start, nothing after it *)

InitRanges ==
    /\ variant = "thread"
    /\ honours_range = TRUE
    /\ max_concurrency \in 1..MaxPlanConcurrency
    /\ content_length \in 0..MaxPlanLength
    /\ chunk = 1
    /\ progress = FALSE
    /\ Constructed
    /\ Fresh

NextRanges == Start

SpecRanges == InitRanges /\ [][NextRanges]_vars

----------------------------------------------------------------------------
(* Jobs constructed with a worker count of zero or less, up to the launch of *)
(* the workers                                                               *)

InitNonPositive ==
    /\ variant \in {"thread", "asyncio", "legacy"}
    /\ honours_range = TRUE
    /\ path = "dir"
    /\ max_concurrency \in (0 - MaxBelowZero)..0
    /\ content_length \in 1..MaxPlanLength
    /\ chunk \in Chunks(variant)
    /\ progress = FALSE
    /\ probed = FALSE
    /\ pc = "new"
    /\ Fresh

NextNonPositive ==
    \/ Construct
    \/ Start
    \/ RangesIteration

SpecNonPositive == InitNonPositive /\ [][NextNonPositive]_vars

----------------------------------------------------------------------------
(* A job of more workers than the default, on which no worker and no merge *)
(* fails                                                                    *)

InitDrift ==
    /\ variant \in {"thread", "asyncio"}
    /\ honours_range = TRUE
    /\ max_concurrency = DriftConcurrency
    /\ content_length = DriftLength
    /\ chunk = CHUNK
    /\ progress = FALSE
    /\ Constructed
    /\ Fresh

NextDrift ==
    \/ Start
    \/ TaskResult
    \/ Gather
    \/ MergeOpen
    \/ MergeFile
    \/ MergeDone
    \/ DeleteTemp
    \/ Return
    \/ \E i \in Workers : GetResponse(i)
    \/ \E i \in Workers : NextChunk(i)
    \/ \E i \in Workers : Finish(i)

SpecDrift == InitDrift /\ [][NextDrift]_vars

----------------------------------------------------------------------------
(* __delete_temps on its own: called twice in a row on a directory that holds *)
(* any subset of the scratch files                                            *)

InitCleanup ==
    /\ variant \in {"thread", "asyncio", "legacy"}
    /\ honours_range = TRUE
    /\ max_concurrency \in 1..MaxPlanConcurrency
    /\ content_length = 1
    /\ chunk \in Chunks(variant)
    /\ progress = FALSE
    /\ path = "dir"
    /\ probed = (variant = "thread")
    /\ pc = "cleanup"
    /\ idx = 1
    /\ ranges = <<>>
    /\ error = "none"
    /\ wpc = NoWorkers
    /\ body = NoWorkers
    /\ chunked = NoWorkers
    /\ loaded = NoWorkers
    /\ arg = NoWorkers
    /\ tempExists \in SUBSET cl_counter
    /\ tempData = [i \in 1..max_concurrency |-> IF i \in tempExists THEN <<0>> ELSE <<>>]
    /\ finalExists \in BOOLEAN
    /\ finalData = <<>>
    /\ current = 0
    /\ passed = 0
    /\ reported = 0
    /\ lastArg = 0

NextCleanup ==
    \/ DeleteTemp
    \/ DeleteTempsAgain
    \/ DeleteTempsReturn

SpecCleanup == InitCleanup /\ [][NextCleanup]_vars

----------------------------------------------------------------------------
(* Properties *)

\* download() has planned the ranges and launched the workers.
Planned == pc \notin {"new", "start"}

\* The Range headers of the planned workers, and the bytes each one asks for.
Headers == [i \in 1..Len(ranges) |-> RangeHeader(ranges[i])]
Asked(h) == h.first..h.last

\* C1: once a worker has raised, download() has raised and every launched worker
\* has stopped, neither the final file nor any scratch file exists.
C1_FailureLeavesNoFile ==
    (pc = "raised" /\ AnyFailed /\ AllStopped)
        => (~finalExists /\ tempExists = {})

\* C2: on the failure path __delete_temps is not running while a launched worker
\* is still running.
C2_CleanupAfterWorkers ==
    pc = "except_delete" => AllStopped

\* C3: when download() has returned or raised, no worker it launched is still
\* running.
C3_NoWorkerOutlivesDownload ==
    pc \in {"returned", "raised"} => AllStopped

\* C4: after a successful download() of a resource of at least one byte, the final
\* file holds the origin's bytes 0..content_length-1, in order, each once.
C4_FinalEqualsOrigin ==
    (pc = "returned" /\ content_length >= 1)
        => (finalExists /\ finalData = Origin(content_length))

\* C5: for content_length >= 1 the byte intervals of the Range headers are each
\* well-formed, pairwise disjoint, and together cover exactly 0..content_length-1.
C5_HeadersPartition ==
    (Planned /\ content_length >= 1)
        => /\ \A i \in 1..Len(ranges) : Headers[i].first <= Headers[i].last
           /\ \A i, j \in 1..Len(ranges) :
                  i # j => Asked(Headers[i]) \cap Asked(Headers[j]) = {}
           /\ UNION {Asked(Headers[i]) : i \in 1..Len(ranges)}
                  = 0..(content_length - 1)

\* __ranges in exact rational arithmetic for the job's content length and worker
\* count (numerators over max_concurrency).
ExactRanges == Ranges(content_length, max_concurrency)

C7_FinalOnlyAfterAllDone ==
    finalExists => AllDone

\* The merge is under way after two workers finished.
C7_Witness ==
    finalExists /\ pc = "merge" /\ Len(wpc) = 2 /\ AllDone

\* C8: when all workers of a job have finished, self.current equals the sum of
\* the chunk lengths passed to __run_progress.
C8_NoLostUpdate ==
    (progress /\ Len(wpc) > 0 /\ AllStopped) => current = passed

\* C9: the callback's first argument never decreases from one invocation to the
\* next.
C9_FirstArgumentMonotone ==
    [][lastArg' >= lastArg]_vars

\* C10: after a successful job with a progress callback and at least one byte,
\* the chunk sizes reported to the callback sum to content_length.
C10_ReportedSumsToLength ==
    (pc = "returned" /\ progress /\ content_length >= 1)
        => reported = content_length

\* C11: a worker whose ranged GET is not answered with 206 Partial Content fails
\* (it never iterates over the body or finishes), and its job aborts: the final
\* file is never created and download() does not return.
C11_NonPartialAborts ==
    \A i \in Workers :
        ~Partial(RangeHeader(ranges[i]))
            => /\ wpc[i] \in {"get", "failed"}
               /\ ~finalExists
               /\ pc # "returned"

\* The exceptions __merge_files raises.
MergeErrors == {"FileNotFoundError", "OSError"}

\* C12: when __merge_files has failed after every worker succeeded and download()
\* has raised, no scratch file of the job is left.
C12_CleanupAfterMergeFailure ==
    (pc = "raised" /\ error \in MergeErrors /\ AllDone)
        => tempExists \cap cl_counter = {}

\* C13: whatever subset of the scratch files is present, __delete_temps does not
\* raise and leaves none of them, and a second call at once changes no file and
\* does not raise.
C13_CleanupIdempotent ==
    /\ [](error = "none" /\ pc # "raised")
    /\ [](pc \in {"cleanup_again", "cleaned"} => tempExists = {})
    /\ [][pc = "cleanup_again"
            => /\ tempExists' = tempExists
               /\ tempData' = tempData
               /\ finalExists' = finalExists
               /\ finalData' = finalData]_vars

\* Both calls have returned for a job of several scratch files.
C13_Witness ==
    pc = "cleaned" /\ max_concurrency >= 2 /\ tempExists = {} /\ error = "none"

\* C14: while the merge runs, no scratch file it has yet to read has been removed;
\* when download() has returned, the final file exists and no scratch file is
\* left, whichever worker created it.
C14_ReturnLeavesNoScratch ==
    /\ pc = "merge" => \A i \in cl_counter : i >= idx => i \in tempExists
    /\ pc = "returned" => finalExists /\ tempExists = {}

\* C15: with an empty, missing or non-directory path the constructor raises
\* ValueError, and it neither issues the GET that probes the content length nor
\* creates a file, in every variant.
C15_BadPathRaisesFirst ==
    path \in {"", "missing", "file"}
        => /\ pc \in {"new", "raised"}
           /\ pc = "raised" => error = "ValueError"
           /\ ~probed
           /\ tempExists = {} /\ ~finalExists

\* The thread variant's constructor has refused a path that names a file.
C15_Witness ==
    pc = "raised" /\ error = "ValueError" /\ path = "file" /\ variant = "thread"
                  /\ ~probed

\* C16: a job constructed with a worker count of zero or less (every job of
\* SpecNonPositive) and a content length of at least 1 fails fast: once download()
\* has begun it has raised, __ranges is not looping, no worker has been launched
\* and no file created.
C16_NonPositiveFailsFast ==
    pc \notin {"new", "start"}
        => /\ pc = "raised" /\ error # "none"
           /\ Workers = {}
           /\ tempExists = {} /\ ~finalExists

\* C17: for a resource of length 0 (and a merge the environment does not fail)
\* no range is planned and no worker launched, download() does not raise, no
\* scratch file is created, and once it has returned the final file exists and is
\* empty.
C17_EmptyResourceCompletes ==
    (content_length = 0 /\ Planned /\ error # "OSError")
        => /\ ranges = <<>> /\ Workers = {}
           /\ error = "none" /\ pc \notin {"shutdown", "raised"}
           /\ tempExists = {}
           /\ pc = "returned" => finalExists /\ finalData = <<>>

C19_FailureRaisesConnectionRefused ==
    /\ [](AnyFailed => pc \notin {"merge_open", "merge", "delete", "returned"})
    /\ []((AnyFailed /\ pc \in {"shutdown", "raised"})
             => error = "ConnectionRefusedError")
    /\ [][Planned => /\ Len(wpc') = Len(wpc)
                      /\ \A i \in Workers : Stopped(i) => wpc'[i] = wpc[i]]_vars
    /\ (AnyFailed /\ pc = "join") ~> (pc = "except_delete")
    /\ AnyFailed ~> (pc = "raised" /\ error = "ConnectionRefusedError")
    /\ (Workers # {} /\ AllDone) ~> (pc = "returned")

====
